---- MODULE Spec2Model ----
(***************************************************************************)
(* Model of the Simple Notes API (notes_backend/src/api/main.py).          *)
(*                                                                         *)
(* The handlers are plain `def` endpoints, which FastAPI runs on worker    *)
(* threads of a thread pool: requests run concurrently and a thread switch *)
(* can fall between any two statements of a handler.  Each handler is      *)
(* therefore split into steps at its accesses to the shared dictionary     *)
(* NOTES_STORE and to the clock; statements that touch only the worker's   *)
(* own locals and objects belong to the step of the access before them.    *)
(*                                                                         *)
(* Python objects are modelled by reference: `heap` holds the Note objects *)
(* and NOTES_STORE maps a key to a reference into the heap.  A string is   *)
(* modelled as a record [ch, len] (the character ch repeated len times),   *)
(* an Optional value as a sequence of length 0 (None) or 1.                *)
(*                                                                         *)
(* Environment assumptions: uuid4() never returns a value twice, and the   *)
(* clock read by datetime.utcnow() never runs backwards (two reads can     *)
(* return the same instant).  Objects nothing refers to any more are freed *)
(* at once, as by CPython's reference counts.                              *)
(***************************************************************************)
EXTENDS Integers, Sequences, FiniteSets, TLC

\* ---------------------------------------------------------------- bounds
NumWorkers == 2
NumIds == 2
MaxRequests == 3

\* ------------------------------------------------------ program constants
TitleMinLen == 1
TitleMaxLen == 200
ContentMinLen == 1

Workers == 1..NumWorkers
Ids == 1..NumIds

\* ---------------------------------------------------------------- values
Str(c, n) == [ch |-> c, len |-> n]
StrLen(s) == s.len

None == <<>>
Some(x) == <<x>>
IsNone(o) == o = <<>>
Val(o) == o[1]

NoRef == 0

\* Payload fields a client can send: absent/null, too short, valid, too long.
RawTitles == {None, Some(Str("a", 0)), Some(Str("a", 1)), Some(Str("t", TitleMaxLen)),
              Some(Str("t", TitleMaxLen + 1))}
RawContents == {None, Some(Str("b", 0)), Some(Str("b", 1))}
\* ... and those of the bodies of PUT requests
NewTitles == {None, Some(Str("u", 0)), Some(Str("u", TitleMaxLen)),
              Some(Str("u", TitleMaxLen + 1))}
NewContents == {None, Some(Str("c", 0)), Some(Str("c", 2))}

\* A title check that leaves out max_length.
ValidTitleNoMax(s) == StrLen(s) >= TitleMinLen

\* class NoteBase: title min_length=1 max_length=200, content min_length=1
ValidTitle(s) == StrLen(s) >= TitleMinLen /\ StrLen(s) <= TitleMaxLen
ValidContent(s) == StrLen(s) >= ContentMinLen

\* class NoteCreate(NoteBase): both fields required
NoteCreate(t, c) ==
    /\ ~IsNone(t) /\ ValidTitle(Val(t))
    /\ ~IsNone(c) /\ ValidContent(Val(c))

\* class NoteUpdate: both fields optional, constrained when present
NoteUpdate(t, c) ==
    /\ IsNone(t) \/ ValidTitle(Val(t))
    /\ IsNone(c) \/ ValidContent(Val(c))

\* A Note built with the title and the content exchanged.
NoteSwapped(i, t, c, ca, ua) ==
    [id |-> i, title |-> c, content |-> t, created_at |-> ca, updated_at |-> ua]

\* class Note(NoteBase)
Note(i, t, c, ca, ua) ==
    [id |-> i, title |-> t, content |-> c, created_at |-> ca, updated_at |-> ua]

VARIABLES
    NOTES_STORE,  \* the dict, in insertion order: sequence of [k |-> key, v |-> ref]
    heap,         \* the Note objects, indexed by reference
    clock,        \* the last instant datetime.utcnow() returned
    nuuid,        \* number of identifiers uuid4() has returned
    nreq,         \* number of requests received so far
    pc,           \* per worker: the statement it is about to run
    req,          \* per worker: the request ([op, note_id, title, content])
    loc,          \* per worker: the handler's locals
    resp,         \* the last response the service sent
    created,      \* history: ids create_note stored a note under
    deleted       \* history: ids some delete_note answered 204 for

vars == <<NOTES_STORE, heap, clock, nuuid, nreq, pc, req, loc, resp, created, deleted>>

hist == <<created, deleted>>

\* ------------------------------------------------------------- the dict
Keys(S) == {S[i].k : i \in 1..Len(S)}
\* k in d
StoreHas(S, k) == k \in Keys(S)
StoreIndex(S, k) == CHOOSE i \in 1..Len(S) : S[i].k = k
\* d.get(k): the reference stored under k, or None
StoreGet(S, k) == IF k \in Keys(S) THEN S[StoreIndex(S, k)].v ELSE NoRef
\* d[k] = v: replaces the value of a present key, or appends a new key
StoreSet(S, k, r) ==
    IF k \in Keys(S)
    THEN [S EXCEPT ![StoreIndex(S, k)] = [k |-> k, v |-> r]]
    ELSE Append(S, [k |-> k, v |-> r])
\* A removal that leaves the dict as it is.
StoreDelNothing(S, k) == S

\* del d[k], for a key that is present
StoreDel(S, k) == SelectSeq(S, LAMBDA e : e.k # k)
\* list(d.values())
StoreValues(S) == [i \in 1..Len(S) |-> S[i].v]

\* ----------------------------------------------------------- the objects
Freed == Note(0, Str("", 0), Str("", 0), 0, 0)

\* The reference a new object gets: the first free slot.
NewRef(h) == CHOOSE r \in 1..(Len(h) + 1) :
                /\ r > Len(h) \/ h[r] = Freed
                /\ \A q \in 1..(r - 1) : h[q] # Freed

\* The heap h with the object n placed at the reference r.
Place(h, r, n) == IF r > Len(h) THEN Append(h, n) ELSE [h EXCEPT ![r] = n]

Range(f) == {f[x] : x \in DOMAIN f}

\* The references the dict S and the workers' locals L hold.
Live(S, L) == Range(StoreValues(S)) \cup {L[w].ref : w \in DOMAIN L}
                \cup UNION {Range(L[w].refs) : w \in DOMAIN L}

RECURSIVE Trim(_)
Trim(h) == IF h # <<>> /\ h[Len(h)] = Freed THEN Trim(SubSeq(h, 1, Len(h) - 1)) ELSE h

\* Reference counting: an object no dict entry and no local refers to is freed.
Collect(h, S, L) ==
    Trim([r \in 1..Len(h) |-> IF r \in Live(S, L) THEN h[r] ELSE Freed])

\* A copy that is the object itself (updated = existing).
model_copy_alias(h, r) == <<h, r>>

\* existing.model_copy(): a new object with the same field values;
\* gives the heap and the new reference
model_copy(h, r) == <<Place(h, NewRef(h), h[r]), NewRef(h)>>

\* ----------------------------------------------------------- environment
\* uuid4(): an identifier never returned before (the next unused one)
uuid4 == {i \in Ids : i = nuuid + 1}

\* _now(): datetime.utcnow(), an instant not before the last one read
now == {clock, clock + 1}

NoReq == [op |-> "none", note_id |-> 0, title |-> None, content |-> None]
NoLoc == [ref |-> NoRef, refs |-> <<>>, snap |-> <<>>]
NoResp == [op |-> "none", status |-> 0]

\* A response: the operation it answers and its status code.
Response(o, st) == [op |-> o, status |-> st]

Init ==
    /\ NOTES_STORE = <<>>
    /\ heap = <<>>
    /\ clock = 0
    /\ nuuid = 0
    /\ nreq = 0
    /\ pc = [w \in Workers |-> "idle"]
    /\ req = [w \in Workers |-> NoReq]
    /\ loc = [w \in Workers |-> NoLoc]
    /\ resp = NoResp
    /\ created = {}
    /\ deleted = {}

\* The thread pool hands a request to an idle worker (the first one), which
\* starts on it.
Accept(w) ==
    /\ pc[w] = "idle"
    /\ \A v \in Workers : v < w => pc[v] # "idle"
    /\ nreq < MaxRequests
    /\ nreq' = nreq + 1

\* The worker w goes on to the statement at label l of the handler of request r.
Goto(w, l, r, ls) ==
    /\ pc' = [pc EXCEPT ![w] = l]
    /\ req' = [req EXCEPT ![w] = r]
    /\ loc' = [loc EXCEPT ![w] = ls]
    /\ UNCHANGED resp

\* The response to an operation o, with status st, is sent by the worker w,
\* which is idle again.
Send(w, o, st) ==
    /\ resp' = Response(o, st)
    /\ pc' = [pc EXCEPT ![w] = "idle"]
    /\ req' = [req EXCEPT ![w] = NoReq]
    /\ loc' = [loc EXCEPT ![w] = NoLoc]

Request(o, i, t, c) == [op |-> o, note_id |-> i, title |-> t, content |-> c]
Locals(r, rs, sn) == [ref |-> r, refs |-> rs, snap |-> sn]

\* ------------------------------------------------- POST /notes
\* The body is validated against NoteCreate (422 when it fails, and the handler
\* is not called); note_id = uuid4(); now = _now(); note = Note(...)
create_note(w) ==
    /\ Accept(w)
    /\ \E t \in RawTitles, c \in RawContents :
        IF ~NoteCreate(t, c)
        THEN /\ Send(w, "create", 422)
             /\ UNCHANGED <<NOTES_STORE, heap, clock, nuuid, hist>>
        ELSE \E i \in uuid4, n \in now :
             /\ nuuid' = nuuid + 1
             /\ clock' = n
             /\ heap' = Place(heap, NewRef(heap), Note(i, Val(t), Val(c), n, n))
             /\ Goto(w, "create_note_store", Request("create", i, t, c),
                     Locals(NewRef(heap), <<>>, <<>>))
             /\ UNCHANGED <<NOTES_STORE, hist>>

\* NOTES_STORE[note_id] = note; return note (201, the note as the body)
create_note_store(w) ==
    /\ pc[w] = "create_note_store"
    /\ NOTES_STORE' = StoreSet(NOTES_STORE, req[w].note_id, loc[w].ref)
    /\ created' = created \cup {req[w].note_id}
    /\ Send(w, "create", 201)
    /\ heap' = Collect(heap, NOTES_STORE', loc')
    /\ UNCHANGED <<clock, nuuid, nreq, deleted>>

\* ------------------------------------------------- GET /notes/{note_id}
\* What get_note answers for the id i when the dict is S and the heap h:
\* the status and the notes of the body.
get_note_result(S, h, i) ==
    IF StoreGet(S, i) = NoRef
    THEN [status |-> 404, body |-> <<>>]
    ELSE [status |-> 200, body |-> <<h[StoreGet(S, i)]>>]

\* note = NOTES_STORE.get(note_id); 404 if not note; return note
get_note_on(w, i) ==
    /\ Accept(w)
    /\ LET note == StoreGet(NOTES_STORE, i) IN
        IF note = NoRef
        THEN Send(w, "get", 404)
        ELSE Goto(w, "serialize", Request("get", i, None, None),
                  Locals(NoRef, <<note>>, <<heap[note]>>))
    /\ UNCHANGED <<NOTES_STORE, heap, clock, nuuid, hist>>

get_note(w) == \E i \in Ids : get_note_on(w, i)

\* ------------------------------------------------- GET /notes
\* What list_notes answers when the dict is S and the heap h.
list_notes_result(S, h) ==
    [status |-> 200, body |-> [j \in 1..Len(S) |-> h[StoreValues(S)[j]]]]

\* return list(NOTES_STORE.values())
list_notes(w) ==
    /\ Accept(w)
    /\ Goto(w, "serialize", Request("list", 0, None, None),
            Locals(NoRef, StoreValues(NOTES_STORE),
                   list_notes_result(NOTES_STORE, heap).body))
    /\ UNCHANGED <<NOTES_STORE, heap, clock, nuuid, hist>>

\* The body sent for the objects the handler of w returned, as they are in h.
Body(h, w) == [j \in 1..Len(loc[w].refs) |-> h[loc[w].refs[j]]]

\* response_model: after get_note or list_notes has returned, the framework
\* reads the fields of the returned objects and sends Body(heap, w) (200).
serialize(w) ==
    /\ pc[w] = "serialize"
    /\ Send(w, req[w].op, 200)
    /\ heap' = Collect(heap, NOTES_STORE, loc')
    /\ UNCHANGED <<NOTES_STORE, clock, nuuid, nreq, hist>>

\* ------------------------------------------------- PUT /notes/{note_id}
\* The checks with the one for an empty payload left out.
update_note_raises_no400(existing, t, c) == IF existing = NoRef THEN 404 ELSE 0

\* The checks with the one for an empty payload made first.
update_note_raises_400first(existing, t, c) ==
    IF IsNone(t) /\ IsNone(c) THEN 400
    ELSE IF existing = NoRef THEN 404
    ELSE 0

\* if not existing: raise HTTPException(404)
\* if payload.title is None and payload.content is None: raise HTTPException(400)
\* The status raised, 0 when none is.
update_note_raises(existing, t, c) ==
    IF existing = NoRef THEN 404
    ELSE IF IsNone(t) /\ IsNone(c) THEN 400
    ELSE 0

\* if payload.title is not None: updated.title = payload.title; same for content
Overwrite(n, t, c) ==
    [n EXCEPT !.title = IF IsNone(t) THEN @ ELSE Val(t),
              !.content = IF IsNone(c) THEN @ ELSE Val(c)]

\* The body is validated against NoteUpdate (422 when it fails);
\* existing = NOTES_STORE.get(note_id); then the two checks;
\* updated = existing.model_copy(); updated.title = ...; updated.content = ...
\* (the copy is private to the worker: writing its fields is no step of its own,
\* and the copy is taken with the lookup, of an object that no statement changes
\* while it is stored)
update_note_on(w, i, t, c) ==
    /\ Accept(w)
    /\ LET existing == StoreGet(NOTES_STORE, i)
           raised == update_note_raises(existing, t, c)
       IN IF ~NoteUpdate(t, c) THEN Send(w, "update", 422) /\ UNCHANGED heap
          ELSE IF raised # 0 THEN Send(w, "update", raised) /\ UNCHANGED heap
          ELSE LET mc == model_copy(heap, existing)
                   updated == mc[2]
               IN /\ heap' = [mc[1] EXCEPT ![updated] = Overwrite(@, t, c)]
                  /\ Goto(w, "update_note_stamp", Request("update", i, t, c),
                          Locals(updated, <<>>, <<>>))
    /\ UNCHANGED <<NOTES_STORE, clock, nuuid, hist>>

update_note(w) ==
    \E i \in Ids, t \in NewTitles, c \in NewContents : update_note_on(w, i, t, c)

\* updated.updated_at = _now()
update_note_stamp(w) ==
    /\ pc[w] = "update_note_stamp"
    /\ \E n \in now :
        /\ clock' = n
        /\ heap' = [heap EXCEPT ![loc[w].ref].updated_at = n]
    /\ pc' = [pc EXCEPT ![w] = "update_note_store"]
    /\ UNCHANGED <<NOTES_STORE, nuuid, nreq, req, loc, resp, hist>>

\* NOTES_STORE[note_id] = updated; return updated (200, the note as the body)
update_note_store(w) ==
    /\ pc[w] = "update_note_store"
    /\ NOTES_STORE' = StoreSet(NOTES_STORE, req[w].note_id, loc[w].ref)
    /\ Send(w, "update", 200)
    /\ heap' = Collect(heap, NOTES_STORE', loc')
    /\ UNCHANGED <<clock, nuuid, nreq, hist>>

\* ------------------------------------------------- DELETE /notes/{note_id}
\* if note_id not in NOTES_STORE: raise HTTPException(404)
delete_note_on(w, i) ==
    /\ Accept(w)
    /\ IF ~StoreHas(NOTES_STORE, i)
       THEN Send(w, "delete", 404)
       ELSE Goto(w, "delete_note_del", Request("delete", i, None, None), NoLoc)
    /\ UNCHANGED <<NOTES_STORE, heap, clock, nuuid, hist>>

delete_note(w) == \E i \in Ids : delete_note_on(w, i)

\* del NOTES_STORE[note_id]; return None (204).  del raises KeyError when the
\* key is gone; no handler catches it and the framework answers 500.
delete_note_del(w) ==
    /\ pc[w] = "delete_note_del"
    /\ IF req[w].note_id \in Keys(NOTES_STORE)
       THEN /\ NOTES_STORE' = StoreDel(NOTES_STORE, req[w].note_id)
            /\ Send(w, "delete", 204)
            /\ deleted' = deleted \cup {req[w].note_id}
       ELSE /\ Send(w, "delete", 500)
            /\ UNCHANGED <<NOTES_STORE, deleted>>
    /\ heap' = Collect(heap, NOTES_STORE', loc')
    /\ UNCHANGED <<clock, nuuid, nreq, created>>

Next ==
    \E w \in Workers :
        \/ create_note(w)
        \/ create_note_store(w)
        \/ get_note(w)
        \/ list_notes(w)
        \/ serialize(w)
        \/ update_note(w)
        \/ update_note_stamp(w)
        \/ update_note_store(w)
        \/ delete_note(w)
        \/ delete_note_del(w)

Spec == Init /\ [][Next]_vars

\* ===================================================================
\* Properties
\* ===================================================================
\* The note stored under the key i of the dict S, in the heap h.
Stored(S, h, i) == h[StoreGet(S, i)]

\* The worker w takes the step that ends the statement at label l.
Leaves(w, l) == pc[w] = l /\ pc'[w] # l

\* C1: when create_note stores the note of a valid payload, a get_note on the
\* returned id that comes next answers 200 with a note that has that id, the
\* payload's title and content and created_at = updated_at; and the id was no
\* key of the store before, nor the id of any note created earlier.
CreateThenGet ==
    [][\A w \in Workers : Leaves(w, "create_note_store") =>
         LET i == req[w].note_id
             g == get_note_result(NOTES_STORE', heap', i)
         IN /\ resp' = Response("create", 201)
            /\ g.status = 200
            /\ g.body[1].id = i
            /\ g.body[1].title = Val(req[w].title)
            /\ g.body[1].content = Val(req[w].content)
            /\ g.body[1].created_at = g.body[1].updated_at
            /\ i \notin Keys(NOTES_STORE)
            /\ i \notin created \cup deleted]_vars

\* A create has just been answered 201 and its note is in the store.
CreateThenGetWitness ==
    /\ resp = Response("create", 201)
    /\ \E i \in Keys(NOTES_STORE) :
         /\ Stored(NOTES_STORE, heap, i).created_at = Stored(NOTES_STORE, heap, i).updated_at
         /\ Stored(NOTES_STORE, heap, i).title = Str("t", TitleMaxLen)

\* C2: when update_note replaces the stored note of an id that is (still) a key
\* of the store, the note keeps its id and created_at, a field the payload does
\* not set keeps the value it had in the store, updated_at does not decrease,
\* and every other entry of the store is unchanged.
UpdateFrame ==
    [][\A w \in Workers :
         Leaves(w, "update_note_store") /\ StoreHas(NOTES_STORE, req[w].note_id) =>
         LET i == req[w].note_id
             old == Stored(NOTES_STORE, heap, i)
             new == Stored(NOTES_STORE', heap', i)
         IN /\ new.id = old.id
            /\ new.created_at = old.created_at
            /\ IsNone(req[w].title) => new.title = old.title
            /\ IsNone(req[w].content) => new.content = old.content
            /\ new.updated_at >= old.updated_at
            /\ Keys(NOTES_STORE') = Keys(NOTES_STORE)
            /\ \A j \in Keys(NOTES_STORE) \ {i} :
                 Stored(NOTES_STORE', heap', j) = Stored(NOTES_STORE, heap, j)]_vars

\* C3: an update_note with neither field set, on an id that is a key of the
\* store, is answered 400, ends there, and leaves the store and every note as
\* they were.
EmptyUpdateRejected ==
    [][\A w \in Workers, i \in Ids :
         StoreHas(NOTES_STORE, i) /\ update_note_on(w, i, None, None) =>
           /\ resp' = Response("update", 400)
           /\ pc'[w] = "idle"
           /\ NOTES_STORE' = NOTES_STORE
           /\ heap' = heap]_vars

\* An empty update of an existing note has just been answered 400.
EmptyUpdateRejectedWitness ==
    /\ resp = Response("update", 400)
    /\ NOTES_STORE # <<>>

\* C4: get_note, update_note (with any valid payload, the empty one included)
\* and delete_note on an id that is no key of the store are answered 404, end
\* there, and leave the store and every note as they were.
MissingIs404 ==
    [][\A w \in Workers : Accept(w) =>
         \A i \in Ids \ Keys(NOTES_STORE) :
            \/ get_note_on(w, i)
            \/ delete_note_on(w, i)
            \/ \E t \in NewTitles, c \in NewContents :
                 NoteUpdate(t, c) /\ update_note_on(w, i, t, c)
            => /\ resp'.status = 404
               /\ pc'[w] = "idle"
               /\ NOTES_STORE' = NOTES_STORE
               /\ heap' = heap]_vars

\* An update of an id that is no key has just been answered 404, while the
\* store holds another note.
MissingIs404Witness ==
    /\ resp = Response("update", 404)
    /\ NOTES_STORE # <<>>
    /\ Keys(NOTES_STORE) # Ids

\* C5: when delete_note removes the entry of an id (204), a get_note on that id
\* that comes next answers 404, a list_notes that comes next has no note with
\* that id, the store has one entry less, and every other entry is unchanged.
DeleteRemovesOne ==
    [][\A w \in Workers :
         Leaves(w, "delete_note_del") /\ resp' = Response("delete", 204) =>
         LET i == req[w].note_id
             l == list_notes_result(NOTES_STORE', heap').body
         IN /\ get_note_result(NOTES_STORE', heap', i).status = 404
            /\ \A j \in 1..Len(l) : l[j].id # i
            /\ Len(NOTES_STORE') = Len(NOTES_STORE) - 1
            /\ Keys(NOTES_STORE') = Keys(NOTES_STORE) \ {i}
            /\ \A j \in Keys(NOTES_STORE) \ {i} :
                 Stored(NOTES_STORE', heap', j) = Stored(NOTES_STORE, heap, j)]_vars

\* A delete has just been answered 204 and another note is left in the store.
DeleteRemovesOneWitness ==
    /\ resp = Response("delete", 204)
    /\ deleted # {}
    /\ Len(NOTES_STORE) = 1
    /\ Keys(NOTES_STORE) \cap deleted = {}

\* C6: every stored note is stored under its own id, no key occurs twice, the
\* title has 1 to 200 characters, the content at least one, and updated_at is
\* not before created_at.
StoredNotesWellFormed ==
    \A k \in 1..Len(NOTES_STORE) :
        LET n == heap[NOTES_STORE[k].v] IN
        /\ n.id = NOTES_STORE[k].k
        /\ \A j \in 1..Len(NOTES_STORE) : NOTES_STORE[j].k = NOTES_STORE[k].k => j = k
        /\ StrLen(n.title) >= TitleMinLen
        /\ StrLen(n.title) <= TitleMaxLen
        /\ StrLen(n.content) >= ContentMinLen
        /\ n.updated_at >= n.created_at

\* The store holds a note that was updated after it was created and has a
\* title of the greatest length, next to a rejected request.
StoredNotesWellFormedWitness ==
    /\ \E i \in Keys(NOTES_STORE) :
         /\ Stored(NOTES_STORE, heap, i).updated_at > Stored(NOTES_STORE, heap, i).created_at
         /\ Stored(NOTES_STORE, heap, i).title = Str("u", TitleMaxLen)
    /\ resp.status = 422

\* C7: the keys of the store are the ids that were created and not deleted, so
\* an id a delete_note answered 204 for is never a key again.
ExistsIffCreatedNotDeleted == Keys(NOTES_STORE) = created \ deleted

\* C8: no statement changes a Note object while the store holds it, and what
\* get_note and list_notes send is what the store held when they looked it up.
NoTornRead ==
    [][/\ \A r \in Range(StoreValues(NOTES_STORE)) \cap Range(StoreValues(NOTES_STORE')) :
            heap'[r] = heap[r]
       /\ \A w \in Workers : Leaves(w, "serialize") => Body(heap, w) = loc[w].snap]_vars

\* A get_note has looked its note up and is about to send it, and an update of
\* that id has replaced the stored note in between.
NoTornReadWitness ==
    \E w \in Workers :
        /\ pc[w] = "serialize"
        /\ req[w].op = "get"
        /\ StoreHas(NOTES_STORE, req[w].note_id)
        /\ StoreGet(NOTES_STORE, req[w].note_id) # loc[w].refs[1]
        /\ Stored(NOTES_STORE, heap, req[w].note_id) # loc[w].snap[1]

\* C9: while an id stays a key of the store, the title a get_note on it returns
\* changes only when an update_note whose payload sets the title stores its
\* note, and likewise the content: a write that was answered is what the next
\* get_note returns, until a later write to the same field.
ReadYourWrites ==
    [][\A i \in Keys(NOTES_STORE) \cap Keys(NOTES_STORE') :
         LET g == get_note_result(NOTES_STORE, heap, i).body[1]
             h == get_note_result(NOTES_STORE', heap', i).body[1]
         IN /\ h.title # g.title =>
                 \E w \in Workers : /\ Leaves(w, "update_note_store")
                                    /\ req[w].note_id = i
                                    /\ req[w].title = Some(h.title)
            /\ h.content # g.content =>
                 \E w \in Workers : /\ Leaves(w, "update_note_store")
                                    /\ req[w].note_id = i
                                    /\ req[w].content = Some(h.content)]_vars

\* C10: a delete_note request is answered 204 or 404, nothing else.
DeleteAnswers204Or404 == resp.op = "delete" => resp.status \in {204, 404}
====
